---- MODULE Spec2Model ----
(***************************************************************************)
(* Auralink.                                                               *)
(*                                                                         *)
(* The persistence layer: the relational store declared by the two SQL     *)
(* schemas (the Supabase setup script and schemas/db.sql), the statements  *)
(* the service layer issues against it, and the match_chunks similarity    *)
(* search.  A nullable column holds an option: Null is the empty set,      *)
(* Some(v) the singleton {v}.  A table is the set of its rows.  Every      *)
(* statement is one action; it records its outcome in `last`, and a        *)
(* rejected statement leaves every table as it was.                        *)
(*                                                                         *)
(* The frontend: the two client API modules (fetch and axios), with the    *)
(* requests they put on the wire and the way a response ends a call, and   *)
(* the Chat page with its message list, composer and reply timers, and    *)
(* the Dashboard upload form with its selected file.                       *)
(***************************************************************************)
EXTENDS Integers, Sequences, FiniteSets, TLC

\* ------------------------------------------------------------------ bounds
MaxMeetings == 2
MaxChunks == 3
MaxK == 3
MaxRows == 1
MaxPayload == 2
MaxTime == 1
MaxCalls == 2
MaxSends == 3
MaxDropped == 2

\* ------------------------------------------------------- program constants
\* vector(3072): the declared dimension of chunks.embedding
VectorDim == 3072

\* ----------------------------------------------------------------- options
Null == {}
Some(v) == {v}
The(o) == CHOOSE v \in o : TRUE

Min(a, b) == IF a <= b THEN a ELSE b

\* The schema a deployment was created from: the Supabase setup script
\* ("setup") or schemas/db.sql ("db").
Schemas == {"setup", "db"}

MeetingIds == 1..MaxMeetings

\* ------------------------------------------------------------------ vectors
\* A vector of dimension dim is written by its first two components; the
\* remaining dim - 2 components are zero.
Vec(d, x, y) == [dim |-> d, head |-> <<x, y>>]

\* Directions whose norms are integers, so that 25 * cosine is an integer.
EmbeddingHeads == {<<1, 0>>, <<3, 4>>, <<0, 0>>}
QueryHeads == {<<1, 0>>, <<4, 3>>, <<0, 0>>}

StoredVectors == {Vec(VectorDim, h[1], h[2]) : h \in EmbeddingHeads}
\* What a caller may hand in: the declared dimension, or one component short.
OfferedVectors == StoredVectors \cup {Vec(VectorDim - 1, 1, 0)}
QueryVectors ==
    {Vec(VectorDim, h[1], h[2]) : h \in QueryHeads} \cup {Vec(VectorDim - 1, 1, 0)}

Dot(a, b) == a.head[1] * b.head[1] + a.head[2] * b.head[2]
NormSq(a) == Dot(a, a)
Norm(a) == CHOOSE n \in 0..NormSq(a) : n * n = NormSq(a)

\* Distances and similarities are floats scaled by 25; nan marks NaN and null
\* the SQL NULL a strict operator returns on a NULL operand.
Float(v) == [null |-> FALSE, nan |-> FALSE, val |-> v]
NaN == [null |-> FALSE, nan |-> TRUE, val |-> 0]
NullFloat == [null |-> TRUE, nan |-> FALSE, val |-> 0]

\* pgvector's a <=> b, defined for two vectors of one dimension: 1 - cosine
\* similarity, NaN when either norm is zero.
CosineDistance(a, b) ==
    IF NormSq(a) = 0 \/ NormSq(b) = 0
    THEN NaN
    ELSE Float(25 - (25 * Dot(a, b)) \div (Norm(a) * Norm(b)))

\* 1 - d on floats: NULL stays NULL and NaN stays NaN.
OneMinus(d) == IF d.null \/ d.nan THEN d ELSE Float(25 - d.val)

\* The ascending order of ORDER BY on float8: NULLs last, NaN equal to NaN and
\* above every number.
DistLeq(d1, d2) ==
    d2.null \/ (~d1.null /\ (d2.nan \/ (~d1.nan /\ d1.val <= d2.val)))
DistLess(d1, d2) == ~DistLeq(d2, d1)

\* --------------------------------------------------------------------- state
VARIABLES
    schema,          \* which of the two schemas the store was created from
    meetings,        \* rows [id, status]
    files,           \* rows [id, meeting_id, kind]
    utterances,      \* rows [id, meeting_id, start_seconds, end_seconds]
    chunks,          \* rows chunk_row(...)
    summaries,       \* rows [meeting_id, payload]
    asr_jobs,        \* rows [id, meeting_id, status]
    chunks_id_seq,   \* BIGSERIAL sequences: the id of the last row stored
                     \* (ids a rejected insert consumed are not counted)
    utterances_id_seq,
    files_id_seq,
    last,            \* the last statement and its outcome
    VITE_API_BASE,   \* the build's API base setting: Null when not set
    calls,           \* client API calls: [fn, args, state, result], by call number
    requests,        \* HTTP requests issued, in order: [call, method, url, ...]
    messages,        \* Chat page: the message list, entries [role, text]
    chat_q,          \* Chat page: the composer text (state q)
    timers,          \* Chat page: reply timers scheduled and not yet fired
    sends,           \* Chat page: sends that passed the blank test so far
    dash_file,       \* Dashboard: the selected file (state file), or null
    dash_title,      \* Dashboard: the title text (state title)
    input_files      \* Dashboard: the FileList of the hidden file input

tables == <<meetings, files, utterances, chunks, summaries, asr_jobs>>
sequences == <<chunks_id_seq, utterances_id_seq, files_id_seq>>
store == <<schema, tables, sequences, last>>
client == <<VITE_API_BASE, calls, requests>>
page == <<messages, chat_q, timers, sends>>
dashboard == <<dash_file, dash_title, input_files>>
frontend == <<client, page, dashboard>>
vars == <<schema, meetings, files, utterances, chunks, summaries, asr_jobs,
          chunks_id_seq, utterances_id_seq, files_id_seq, last,
          VITE_API_BASE, calls, requests, messages, chat_q, timers, sends,
          dash_file, dash_title, input_files>>

NoVec == Vec(0, 0, 0)

\* The record of a statement: its name, its error ("none" when it succeeded),
\* its arguments, the value it replaced and the rows it returned.
Outcome(op, err) ==
    [op |-> op, err |-> err, m |-> Null, id |-> Null, q |-> NoVec, k |-> 0,
     val |-> Null, old |-> Null, given |-> FALSE, rows |-> <<>>]

\* --------------------------------------------------------------- constraints
MeetingStatuses ==
    {"uploaded", "asr_started", "asr_done", "indexed", "summarized", "error"}

\* Texts a writer may offer for meetings.status.
StatusTexts == MeetingStatuses \cup {"processing"}

\* CONSTRAINT meetings_status_check CHECK (status IN (...)); a CHECK passes on NULL.
meetings_status_check_processing(status) ==
    status = Null \/ The(status) \in MeetingStatuses \cup {"processing"}
meetings_status_check(status) ==
    status = Null \/ The(status) \in MeetingStatuses

\* status TEXT NOT NULL DEFAULT 'uploaded' (setup) / status TEXT DEFAULT 'processing' (db)
meetings_status_default(sch) ==
    IF sch = "setup" THEN Some("uploaded") ELSE Some("processing")

\* What the meetings table accepts for the status column.
meetings_status_ok(sch, status) ==
    IF sch = "setup"
    THEN status # Null /\ meetings_status_check(status)
    ELSE TRUE

\* meeting_id UUID [NOT NULL] REFERENCES meetings(id): the error of a dependent
\* row's meeting_id, "none" when it is accepted.
meeting_id_error(sch, meeting_id) ==
    IF meeting_id = Null
    THEN IF sch = "setup" THEN "not_null_violation" ELSE "none"
    ELSE IF \E mt \in meetings : mt.id = The(meeting_id)
         THEN "none"
         ELSE "foreign_key_violation"

\* embedding vector(3072): a stored value is NULL or has the declared dimension.
embedding_ok(embedding) ==
    embedding = Null \/ The(embedding).dim = VectorDim

\* ---------------------------------------------------------------- meetings
MeetingOf(m) == CHOOSE mt \in meetings : mt.id = m
HasMeeting(m) == \E mt \in meetings : mt.id = m

\* INSERT INTO meetings: with an explicit status (given) or the column DEFAULT.
\* NOT NULL and CHECK are evaluated on the new row before it reaches the
\* primary-key index.
create_meeting(m, given, status) ==
    LET st == IF given THEN status ELSE meetings_status_default(schema)
        out == [Outcome("create_meeting", "none")
                   EXCEPT !.m = Some(m), !.val = st, !.given = given]
    IN  /\ IF ~meetings_status_ok(schema, st)
           THEN /\ last' = [out EXCEPT !.err =
                               IF st = Null THEN "not_null_violation"
                                            ELSE "check_violation"]
                /\ UNCHANGED meetings
           ELSE IF HasMeeting(m)
           THEN /\ last' = [out EXCEPT !.err = "unique_violation"]
                /\ UNCHANGED meetings
           ELSE /\ last' = out
                /\ meetings' = meetings \cup {[id |-> m, status |-> st]}
        /\ UNCHANGED <<frontend, schema, files, utterances, chunks, summaries, asr_jobs,
                       sequences>>

\* UPDATE meetings SET status = ... WHERE id = m
update_status(m, status) ==
    LET out == [Outcome("update_status", "none")
                   EXCEPT !.m = Some(m), !.val = status,
                          !.old = IF HasMeeting(m) THEN MeetingOf(m).status ELSE Null,
                          !.given = HasMeeting(m)]
    IN  /\ IF ~HasMeeting(m)
           THEN /\ last' = out
                /\ UNCHANGED meetings
           ELSE IF ~meetings_status_ok(schema, status)
           THEN /\ last' = [out EXCEPT !.err =
                               IF status = Null THEN "not_null_violation"
                                                ELSE "check_violation"]
                /\ UNCHANGED meetings
           ELSE /\ last' = out
                /\ meetings' = (meetings \ {MeetingOf(m)})
                                  \cup {[id |-> m, status |-> status]}
        /\ UNCHANGED <<frontend, schema, files, utterances, chunks, summaries, asr_jobs,
                       sequences>>

\* REFERENCES meetings(id) ON DELETE CASCADE: the rows of a dependent table
\* that survive the deletion of meeting m.
references(rows, m) == {r \in rows : r.meeting_id = Some(m)}

cascade_keep_all(rows, m) == rows
cascade_every_meeting(rows, m) == {r \in rows : r.meeting_id = Null}
cascade(rows, m) == {r \in rows : r.meeting_id # Some(m)}

\* DELETE FROM meetings WHERE id = m
delete_meeting(m) ==
    /\ last' = [Outcome("delete_meeting", "none")
                   EXCEPT !.m = Some(m), !.given = HasMeeting(m),
                          !.k = Cardinality(references(files, m))
                                + Cardinality(references(utterances, m))
                                + Cardinality(references(chunks, m))
                                + Cardinality(references(summaries, m))
                                + Cardinality(references(asr_jobs, m))]
    /\ meetings' = {mt \in meetings : mt.id # m}
    /\ IF HasMeeting(m)
       THEN /\ files' = cascade(files, m)
            /\ utterances' = cascade(utterances, m)
            /\ chunks' = cascade(chunks, m)
            /\ summaries' = cascade(summaries, m)
            /\ asr_jobs' = cascade(asr_jobs, m)
       ELSE UNCHANGED <<files, utterances, chunks, summaries, asr_jobs>>
    /\ UNCHANGED <<frontend, schema, sequences>>

\* ------------------------------------------------------------------ chunks
ChunkOf(id) == CHOOSE c \in chunks : c.id = id
HasChunk(id) == \E c \in chunks : c.id = id

\* The columns of chunks a writer supplies beside meeting_id and embedding.
ChunkContent(t) ==
    [speaker |-> Some("Speaker 1"), start_seconds |-> 0, end_seconds |-> MaxTime,
     topic |-> Null, text |-> t]

\* source TEXT DEFAULT 'transcript' -- or 'summary': a column of the chunks
\* table of schemas/db.sql only.
ChunkSources == {"transcript", "summary"}
has_source(sch) == sch = "db"

\* The row INSERT INTO chunks stores.  created_at is DEFAULT NOW() under the
\* setup script, written as the order of insertion; under schemas/db.sql the
\* row has a source (DEFAULT 'transcript') and no created_at.
chunk_row(sch, id, meeting_id, content, source, embedding) ==
    IF has_source(sch)
    THEN [id |-> id, meeting_id |-> meeting_id, speaker |-> content.speaker,
          start_seconds |-> content.start_seconds,
          end_seconds |-> content.end_seconds, text |-> content.text,
          topic |-> content.topic,
          source |-> IF source = Null THEN "transcript" ELSE The(source),
          embedding |-> embedding]
    ELSE [id |-> id, meeting_id |-> meeting_id, speaker |-> content.speaker,
          start_seconds |-> content.start_seconds,
          end_seconds |-> content.end_seconds, topic |-> content.topic,
          text |-> content.text, embedding |-> embedding, created_at |-> id]

\* INSERT INTO chunks (meeting_id, speaker, ..., text [, source], embedding):
\* source is Null when the statement does not name the column.
create_chunk(meeting_id, content, source, embedding) ==
    LET out == [Outcome("create_chunk", "none")
                   EXCEPT !.m = meeting_id, !.val = embedding]
        id  == chunks_id_seq + 1
    IN  /\ chunks_id_seq < MaxChunks
        /\ IF source # Null /\ ~has_source(schema)
           THEN /\ last' = [out EXCEPT !.err = "undefined_column"]
                /\ UNCHANGED <<chunks, chunks_id_seq>>
           ELSE IF ~embedding_ok(embedding)
           THEN /\ last' = [out EXCEPT !.err = "dimension_mismatch"]
                /\ UNCHANGED <<chunks, chunks_id_seq>>
           ELSE IF meeting_id_error(schema, meeting_id) # "none"
           THEN /\ last' = [out EXCEPT !.err = meeting_id_error(schema, meeting_id)]
                /\ UNCHANGED <<chunks, chunks_id_seq>>
           ELSE /\ last' = [out EXCEPT !.id = Some(id)]
                /\ chunks' = chunks \cup
                      {chunk_row(schema, id, meeting_id, content, source, embedding)}
                /\ chunks_id_seq' = id
        /\ UNCHANGED <<frontend, schema, meetings, files, utterances, summaries, asr_jobs,
                       utterances_id_seq, files_id_seq>>

\* UPDATE chunks SET embedding = ... WHERE id = id
update_embedding(id, embedding) ==
    LET out == [Outcome("update_embedding", "none")
                   EXCEPT !.id = Some(id), !.val = embedding,
                          !.given = HasChunk(id)]
    IN  /\ IF ~HasChunk(id)
           \* no row matches: whether the value is cast to vector(3072) at all
           \* depends on how the statement is planned
           THEN /\ \/ last' = out
                   \/ /\ ~embedding_ok(embedding)
                      /\ last' = [out EXCEPT !.err = "dimension_mismatch"]
                /\ UNCHANGED chunks
           ELSE IF ~embedding_ok(embedding)
           THEN /\ last' = [out EXCEPT !.err = "dimension_mismatch"]
                /\ UNCHANGED chunks
           ELSE /\ last' = out
                /\ chunks' = (chunks \ {ChunkOf(id)})
                                \cup {[ChunkOf(id) EXCEPT !.embedding = embedding]}
        /\ UNCHANGED <<frontend, schema, meetings, files, utterances, summaries, asr_jobs,
                       sequences>>

\* -------------------------------------------------------------- utterances
\* INSERT INTO utterances (meeting_id, ..., start_seconds, end_seconds, ...)
create_utterance(meeting_id, start_seconds, end_seconds) ==
    LET out == [Outcome("create_utterance", "none") EXCEPT !.m = meeting_id]
        id  == utterances_id_seq + 1
    IN  /\ utterances_id_seq < MaxRows
        /\ IF meeting_id_error(schema, meeting_id) # "none"
           THEN /\ last' = [out EXCEPT !.err = meeting_id_error(schema, meeting_id)]
                /\ UNCHANGED <<utterances, utterances_id_seq>>
           ELSE /\ last' = [out EXCEPT !.id = Some(id)]
                /\ utterances' = utterances \cup
                      {[id |-> id, meeting_id |-> meeting_id,
                        start_seconds |-> start_seconds,
                        end_seconds |-> end_seconds]}
                /\ utterances_id_seq' = id
        /\ UNCHANGED <<frontend, schema, meetings, files, chunks, summaries, asr_jobs,
                       chunks_id_seq, files_id_seq>>

\* --------------------------------------------------------------- summaries
\* meeting_id UUID PRIMARY KEY: no second row for one meeting.
summaries_pkey_off(m) == TRUE
summaries_pkey(m) == \A sm \in summaries : sm.meeting_id # Some(m)

\* payload JSONB NOT NULL (setup) / payload JSONB (db)
summaries_payload_ok(sch, payload) == sch = "db" \/ payload # Null

\* The error of a row offered to summaries apart from its key being taken.
summaries_row_error(meeting_id, payload) ==
    IF meeting_id = Null
    THEN "not_null_violation"
    ELSE IF ~summaries_payload_ok(schema, payload)
    THEN "not_null_violation"
    ELSE meeting_id_error(schema, meeting_id)

SummaryPayload(m) ==
    IF \E sm \in summaries : sm.meeting_id = Some(m)
    THEN (CHOOSE sm \in summaries : sm.meeting_id = Some(m)).payload
    ELSE Null

\* INSERT INTO summaries (meeting_id, payload)
create_summary(meeting_id, payload) ==
    LET out == [Outcome("create_summary", "none")
                   EXCEPT !.m = meeting_id, !.val = payload]
    IN  /\ IF summaries_row_error(meeting_id, payload) # "none"
           THEN /\ last' = [out EXCEPT !.err = summaries_row_error(meeting_id, payload)]
                /\ UNCHANGED summaries
           ELSE IF ~summaries_pkey(The(meeting_id))
           THEN /\ last' = [out EXCEPT !.err = "unique_violation"]
                /\ UNCHANGED summaries
           ELSE /\ last' = out
                /\ summaries' = summaries \cup
                      {[meeting_id |-> meeting_id, payload |-> payload]}
        /\ UNCHANGED <<frontend, schema, meetings, files, utterances, chunks, asr_jobs,
                       sequences>>

\* UPSERT INTO summaries: insert, or on a taken key replace the row's payload.
upsert_summary(m, payload) ==
    LET out == [Outcome("upsert_summary", "none")
                   EXCEPT !.m = Some(m), !.val = payload,
                          !.old = SummaryPayload(m),
                          !.given = ~summaries_pkey(m)]
    IN  /\ IF summaries_row_error(Some(m), payload) # "none"
           THEN /\ last' = [out EXCEPT !.err = summaries_row_error(Some(m), payload)]
                /\ UNCHANGED summaries
           ELSE /\ last' = out
                /\ summaries' = {sm \in summaries : sm.meeting_id # Some(m)}
                                   \cup {[meeting_id |-> Some(m), payload |-> payload]}
        /\ UNCHANGED <<frontend, schema, meetings, files, utterances, chunks, asr_jobs,
                       sequences>>

\* DELETE FROM summaries WHERE meeting_id = m
delete_summary(m) ==
    /\ last' = [Outcome("delete_summary", "none")
                   EXCEPT !.m = Some(m), !.given = ~summaries_pkey(m)]
    /\ summaries' = {sm \in summaries : sm.meeting_id # Some(m)}
    /\ UNCHANGED <<frontend, schema, meetings, files, utterances, chunks, asr_jobs,
                   sequences>>

\* ------------------------------------------------------- files and asr_jobs
FileKinds == {"upload", "narration", "summary", "other"}
AsrJobStatuses == {"queued", "processing", "completed", "error"}

\* CONSTRAINT files_kind_check CHECK (kind IN (...))
files_kind_check_off(kind) == TRUE
files_kind_check(kind) == kind = Null \/ The(kind) \in FileKinds

\* CONSTRAINT asr_jobs_status_check CHECK (status IN (...))
asr_jobs_status_check(status) == status = Null \/ The(status) \in AsrJobStatuses

\* The files and asr_jobs tables are created by the setup script only.
has_table(sch) == sch = "setup"

\* INSERT INTO files (meeting_id, path, kind, ...)
create_file(meeting_id, kind) ==
    LET out == [Outcome("create_file", "none")
                   EXCEPT !.m = meeting_id, !.val = kind]
        id  == files_id_seq + 1
    IN  /\ files_id_seq < MaxRows
        /\ IF ~has_table(schema)
           THEN /\ last' = [out EXCEPT !.err = "undefined_table"]
                /\ UNCHANGED <<files, files_id_seq>>
           ELSE IF kind = Null
           THEN /\ last' = [out EXCEPT !.err = "not_null_violation"]
                /\ UNCHANGED <<files, files_id_seq>>
           ELSE IF ~files_kind_check(kind)
           THEN /\ last' = [out EXCEPT !.err = "check_violation"]
                /\ UNCHANGED <<files, files_id_seq>>
           ELSE IF meeting_id_error(schema, meeting_id) # "none"
           THEN /\ last' = [out EXCEPT !.err = meeting_id_error(schema, meeting_id)]
                /\ UNCHANGED <<files, files_id_seq>>
           ELSE /\ last' = [out EXCEPT !.id = Some(id)]
                /\ files' = files \cup
                      {[id |-> id, meeting_id |-> meeting_id, kind |-> kind]}
                /\ files_id_seq' = id
        /\ UNCHANGED <<frontend, schema, meetings, utterances, chunks, summaries, asr_jobs,
                       chunks_id_seq, utterances_id_seq>>

\* INSERT INTO asr_jobs (id, meeting_id, provider, status, ...): status is
\* explicit (given) or the column DEFAULT 'queued'.
create_asr_job(id, meeting_id, given, status) ==
    LET st  == IF given THEN status ELSE Some("queued")
        out == [Outcome("create_asr_job", "none")
                   EXCEPT !.m = meeting_id, !.id = Some(id), !.val = st,
                          !.given = given]
    IN  /\ IF ~has_table(schema)
           THEN /\ last' = [out EXCEPT !.err = "undefined_table"]
                /\ UNCHANGED asr_jobs
           ELSE IF st = Null
           THEN /\ last' = [out EXCEPT !.err = "not_null_violation"]
                /\ UNCHANGED asr_jobs
           ELSE IF ~asr_jobs_status_check(st)
           THEN /\ last' = [out EXCEPT !.err = "check_violation"]
                /\ UNCHANGED asr_jobs
           ELSE IF \E j \in asr_jobs : j.id = id
           THEN /\ last' = [out EXCEPT !.err = "unique_violation"]
                /\ UNCHANGED asr_jobs
           ELSE IF meeting_id_error(schema, meeting_id) # "none"
           THEN /\ last' = [out EXCEPT !.err = meeting_id_error(schema, meeting_id)]
                /\ UNCHANGED asr_jobs
           ELSE /\ last' = out
                /\ asr_jobs' = asr_jobs \cup
                      {[id |-> id, meeting_id |-> meeting_id, status |-> st]}
        /\ UNCHANGED <<frontend, schema, meetings, files, utterances, chunks, summaries,
                       sequences>>

\* UPDATE files SET kind = ... WHERE id = id
update_kind(id, kind) ==
    LET has == \E f \in files : f.id = id
        row == CHOOSE f \in files : f.id = id
        out == [Outcome("update_kind", "none")
                   EXCEPT !.id = Some(id), !.val = kind, !.given = has,
                          !.old = IF has THEN row.kind ELSE Null]
    IN  /\ IF ~has_table(schema)
           THEN /\ last' = [out EXCEPT !.err = "undefined_table"]
                /\ UNCHANGED files
           ELSE IF ~has
           THEN /\ last' = out
                /\ UNCHANGED files
           ELSE IF kind = Null
           THEN /\ last' = [out EXCEPT !.err = "not_null_violation"]
                /\ UNCHANGED files
           ELSE IF ~files_kind_check(kind)
           THEN /\ last' = [out EXCEPT !.err = "check_violation"]
                /\ UNCHANGED files
           ELSE /\ last' = out
                /\ files' = (files \ {row}) \cup {[row EXCEPT !.kind = kind]}
        /\ UNCHANGED <<frontend, schema, meetings, utterances, chunks, summaries, asr_jobs,
                       sequences>>

\* UPDATE asr_jobs SET status = ... WHERE id = id
update_job_status(id, status) ==
    LET has == \E j \in asr_jobs : j.id = id
        row == CHOOSE j \in asr_jobs : j.id = id
        out == [Outcome("update_job_status", "none")
                   EXCEPT !.id = Some(id), !.val = status, !.given = has,
                          !.old = IF has THEN row.status ELSE Null]
    IN  /\ IF ~has_table(schema)
           THEN /\ last' = [out EXCEPT !.err = "undefined_table"]
                /\ UNCHANGED asr_jobs
           ELSE IF ~has
           THEN /\ last' = out
                /\ UNCHANGED asr_jobs
           ELSE IF status = Null
           THEN /\ last' = [out EXCEPT !.err = "not_null_violation"]
                /\ UNCHANGED asr_jobs
           ELSE IF ~asr_jobs_status_check(status)
           THEN /\ last' = [out EXCEPT !.err = "check_violation"]
                /\ UNCHANGED asr_jobs
           ELSE /\ last' = out
                /\ asr_jobs' = (asr_jobs \ {row})
                                  \cup {[row EXCEPT !.status = status]}
        /\ UNCHANGED <<frontend, schema, meetings, files, utterances, chunks, summaries,
                       sequences>>

\* ------------------------------------------------------------ match_chunks
\* WHERE chunks.meeting_id = p_meeting_id AND chunks.embedding IS NOT NULL
match_where_any_meeting(c, m) == c.embedding # Null
match_where_null_embedding(c, m) == c.meeting_id = Some(m)
match_where(c, m) == c.meeting_id = Some(m) /\ c.embedding # Null

\* FROM chunks WHERE ..., on the chunks table C.
match_candidates_any_meeting(C, m) == {c \in C : c.embedding # Null}
match_candidates(C, m) == {c \in C : match_where(c, m)}

\* chunks.embedding <=> query_embedding
match_distance(c, q) ==
    IF c.embedding = Null THEN NullFloat ELSE CosineDistance(The(c.embedding), q)

\* ORDER BY chunks.embedding <=> query_embedding: s lists its rows in an order
\* the sort may produce (equal keys in any order).
match_order_desc(s, q) ==
    \A i, j \in DOMAIN s :
        i < j => DistLeq(match_distance(s[j], q), match_distance(s[i], q))
match_order(s, q) ==
    \A i, j \in DOMAIN s :
        i < j => DistLeq(match_distance(s[i], q), match_distance(s[j], q))

match_sorted(S, q) ==
    {s \in [1..Cardinality(S) -> S] :
        /\ \A i, j \in DOMAIN s : i # j => s[i] # s[j]
        /\ match_order(s, q)}

\* LIMIT match_count (match_count > 0)
match_limit_plus_one(s, k) == SubSeq(s, 1, Min(k + 1, Len(s)))
match_limit(s, k) == SubSeq(s, 1, Min(k, Len(s)))

\* The SELECT list: id, meeting_id, speaker, start_seconds, end_seconds, topic,
\* text, embedding, created_at and 1 - (embedding <=> query_embedding).
match_row(c, q) ==
    [id |-> c.id, meeting_id |-> c.meeting_id, speaker |-> c.speaker,
     start_seconds |-> c.start_seconds, end_seconds |-> c.end_seconds,
     topic |-> c.topic, text |-> c.text, embedding |-> c.embedding,
     created_at |-> c.created_at,
     similarity |-> OneMinus(match_distance(c, q))]

\* A call whose query vector meets a stored vector of another dimension: <=>
\* raises "different vector dimensions".  The query_embedding parameter is
\* declared vector(3072), but a function parameter keeps no type modifier, so
\* the length of q is compared only when <=> is evaluated on a row.
match_dimension_error(C, q, m) ==
    \E c \in match_candidates(C, m) :
        c.embedding # Null /\ The(c.embedding).dim # q.dim

\* What the query may give on the chunks table C: an error, or the rows of
\* one of the orders the sort may produce, cut at the limit.
match_results(C, q, m, k) ==
    IF k < 0
    THEN {[err |-> "invalid_row_count", rows |-> <<>>]}
    ELSE IF k = 0
    \* LIMIT 0 ends the scan before a row is fetched
    THEN {[err |-> "none", rows |-> <<>>]}
    ELSE IF match_dimension_error(C, q, m)
    THEN {[err |-> "dimension_mismatch", rows |-> <<>>]}
    ELSE {[err |-> "none",
           rows |-> [i \in 1..Len(match_limit(s, k)) |->
                        match_row(match_limit(s, k)[i], q)]] :
             s \in match_sorted(match_candidates(C, m), q)}

\* SELECT * FROM match_chunks(q, m, k)
match_chunks(q, m, k) ==
    LET out == [Outcome("match_chunks", "none")
                   EXCEPT !.q = q, !.m = Some(m), !.k = k]
    IN  /\ schema = "setup"
        /\ \E r \in match_results(chunks, q, m, k) :
              last' = [out EXCEPT !.err = r.err, !.rows = r.rows]
        /\ UNCHANGED <<frontend, schema, meetings, files, utterances, chunks, summaries,
                       asr_jobs, sequences>>

\* ------------------------------------------------------- client: JS values
\* A JavaScript value is written as its literal: 'm1' is a string, 12 a
\* number, and undefined, null, true and false are themselves.
Undefined == "undefined"
JsNull == "null"
Falsy == {"undefined", "null", "false", "0", "''", "NaN"}
Truthy(v) == v \notin Falsy

\* a || b
Or_nullish(a, b) == IF a \in {"undefined", "null"} THEN b ELSE a
Or(a, b) == IF Truthy(a) THEN a ELSE b

\* A parameter default (k=12): it applies to undefined only.
Default(v, d) == IF v = Undefined THEN d ELSE v

\* Number(v) on the values offered as time_end.
Number(v) ==
    CASE v = "'45'" -> "45"
      [] v = "''"   -> "0"
      [] v = "null" -> "0"
      [] v = "undefined" -> "NaN"
      [] OTHER      -> v

\* encodeURIComponent(v): the text that stands in the URL.
encodeURIComponent(v) ==
    CASE v = "'m1'"  -> "m1"
      [] v = "'m 2'" -> "m%202"
      [] OTHER       -> v

\* axios' params serializer: encodeURIComponent, then %20 written as +.
axios_encode(v) ==
    CASE v = "'m 2'" -> "m+2"
      [] OTHER       -> encodeURIComponent(v)

\* JSON.stringify of an object: a key whose value is undefined is left out.
Stringify(obj) ==
    [key \in {key \in DOMAIN obj : obj[key] # Undefined} |-> obj[key]]

\* The bodies a request carries.
NoBody == [type |-> "none"]
JsonBody(obj) == [type |-> "json", json |-> obj]
FormBody(fields) == [type |-> "form", form |-> fields]

JsonHeaders == {<<"Content-Type", "application/json">>}

\* ---------------------------------------------------- client: the requests
\* A URL is the list of its parts: the origin, then the path segments.
\* API_BASE = import.meta.env.VITE_API_BASE || "http://localhost:8000"
API_BASE ==
    IF VITE_API_BASE = Null THEN <<"http://localhost:8000">> ELSE The(VITE_API_BASE)

ENDPOINTS ==
    [ingest    |-> API_BASE \o <<"api", "ingest">>,
     index     |-> API_BASE \o <<"api", "index">>,
     summarize |-> API_BASE \o <<"api", "summarize">>,
     chat      |-> API_BASE \o <<"api", "chat">>]

\* axios.create({ baseURL: VITE_API_BASE || "http://localhost:8000/api" })
baseURL ==
    IF VITE_API_BASE = Null THEN <<"http://localhost:8000", "api">>
                            ELSE The(VITE_API_BASE)

\* What goes on the wire: method, URL, query string, headers and body.
Request(method, url, query, headers, body) ==
    [method |-> method, url |-> url, query |-> query, headers |-> headers,
     body |-> body]

\* The form both upload functions build: title is appended only when truthy.
UploadForm(file, title) ==
    FormBody({<<"file", file>>}
                \cup IF Truthy(title) THEN {<<"title", title>>} ELSE {})

\* The fetch module (request and its four callers).
ingestFile(file, title) ==
    Request("POST", ENDPOINTS.ingest, {}, {}, UploadForm(file, title))

buildIndex(meetingId) ==
    Request("POST", ENDPOINTS.index, {}, JsonHeaders,
            JsonBody(Stringify([meeting_id |-> meetingId])))

getSummary(meetingId) ==
    Request("GET", ENDPOINTS.summarize,
            {<<"meeting_id", encodeURIComponent(meetingId)>>}, {}, NoBody)

chat(meetingId, query) ==
    Request("POST", ENDPOINTS.chat, {}, JsonHeaders,
            JsonBody(Stringify([meeting_id |-> meetingId, query |-> query])))

\* The axios module.  A params entry that is null or undefined is left out.
api_params(meeting_id) ==
    IF meeting_id \in {Undefined, JsNull}
    THEN {}
    ELSE {<<"meeting_id", axios_encode(meeting_id)>>}

api_post(path, data) ==
    Request("POST", baseURL \o <<path>>, {}, JsonHeaders, JsonBody(data))
api_get(path, params) ==
    Request("GET", baseURL \o <<path>>, params, {}, NoBody)

ingest(file, title) ==
    Request("POST", baseURL \o <<"ingest">>, {}, {}, UploadForm(file, title))
api_buildIndex(meeting_id) ==
    api_post("index", Stringify([meeting_id |-> meeting_id]))
summarize(meeting_id) ==
    api_post("summarize", Stringify([meeting_id |-> meeting_id]))
api_getSummary(meeting_id) == api_get("summary", api_params(meeting_id))
getUtterances(meeting_id) == api_get("utterances", api_params(meeting_id))

askChat(meeting_id, query, k, speaker, time_end, rerank) ==
    api_post("chat",
        Stringify([meeting_id |-> meeting_id, query |-> query,
                   k |-> Default(k, "12"), rerank |-> Default(rerank, "true")])
        @@ [filters |->
               [speaker    |-> Or(speaker, JsNull),
                time_start |-> JsNull,
                time_end   |-> IF Truthy(time_end) THEN Number(time_end)
                                                   ELSE JsNull]])

\* --------------------------------------------------- client: the responses
FetchFns == {"ingestFile", "buildIndex", "getSummary", "chat"}
AxiosFns ==
    {"api.ingest", "api.buildIndex", "api.summarize", "api.getSummary",
     "api.getUtterances", "api.askChat"}

StatusText(status) ==
    CASE status = 200 -> "OK"
      [] status = 204 -> "No Content"
      [] status = 404 -> "Not Found"
      [] OTHER        -> "Internal Server Error"

\* What comes back for a request: a response, or no response at all.
Response(status, body) ==
    [kind |-> "response", status |-> status, statusText |-> StatusText(status),
     body |-> body]
NetworkError == [kind |-> "network", status |-> 0, statusText |-> "", body |-> ""]
NoResponse == [kind |-> "none", status |-> 0, statusText |-> "", body |-> ""]

ItemsJson == "{\"items\":[\"u1\"]}"
ValidJson == {ItemsJson}

Responses ==
    {Response(200, ItemsJson), Response(200, "<html>"), Response(204, ""),
     Response(404, ItemsJson), Response(404, "<html>"), Response(500, ""),
     NetworkError}

\* Response.ok, and axios' default validateStatus: a status from 200 to 299.
res_ok_any(res) == TRUE
res_ok(res) == res.status >= 200 /\ res.status < 300

\* JSON.parse of a body text, as the literal of the value it denotes.
JsonParse(body) ==
    CASE body = ItemsJson -> "{items:['u1']}"
      [] OTHER            -> Undefined

\* data?.items
Items(data) ==
    CASE data = "{items:['u1']}" -> "['u1']"
      [] OTHER                   -> Undefined

\* A body text as a JS string literal.
Quote(body) ==
    CASE body = ""       -> "''"
      [] body = "<html>" -> "'<html>'"
      [] OTHER           -> body

\* How a call ends: fulfilled with a value, or rejected with an error.
NoError == [name |-> "none", message |-> <<>>]
Fulfilled(value) == [state |-> "fulfilled", value |-> value, error |-> NoError]
Rejected(name, message) ==
    [state |-> "rejected", value |-> Undefined,
     error |-> [name |-> name, message |-> message]]

\* request(): fetch rejects when there is no response; a response that is not
\* ok throws Error(`${res.status} ${res.statusText}`), its message written as
\* the list of the words the template joins; otherwise res.json(), or {} when
\* the body does not parse.
request(res) ==
    IF res.kind = "network"
    THEN Rejected("TypeError", <<"Failed to fetch">>)
    ELSE IF ~res_ok(res)
    THEN Rejected("Error", <<ToString(res.status), res.statusText>>)
    ELSE Fulfilled(IF res.body \in ValidJson THEN JsonParse(res.body) ELSE "{}")

\* api.<method>(...).then(r => r.data): axios rejects on no response and on a
\* status validateStatus refuses; r.data is the parsed body, or the body text
\* when it does not parse.  getUtterances goes on to r.data?.items || [].
axios_then(fn, res) ==
    LET data == IF res.body \in ValidJson THEN JsonParse(res.body)
                                          ELSE Quote(res.body)
    IN  IF res.kind = "network"
        THEN Rejected("AxiosError", <<"Network Error">>)
        ELSE IF ~res_ok(res)
        THEN Rejected("AxiosError",
                      <<"Request failed with status code", ToString(res.status)>>)
        ELSE Fulfilled(IF fn = "api.getUtterances" THEN Or(Items(data), "[]")
                                                   ELSE data)

\* ------------------------------------------------------- client: the calls
Pending(fn, args) ==
    [fn |-> fn, args |-> args, res |-> NoResponse, state |-> "pending",
     value |-> Undefined, error |-> NoError]

\* A call of one of the API functions with its arguments: the function
\* builds its request and hands it to fetch or axios at once, and the call
\* stays pending.
start(fn, args, req) ==
    /\ Len(calls) < MaxCalls
    /\ calls' = Append(calls, Pending(fn, args))
    /\ requests' = Append(requests, [call |-> Len(calls) + 1, req |-> req])
    /\ UNCHANGED <<VITE_API_BASE, page, dashboard, store>>

\* What a call sends after its request has come back: nothing.  request()
\* throws or returns, and the axios instance is created without interceptors.
resend_rejected(i, out) ==
    IF out.state = "rejected"
    THEN SelectSeq(requests, LAMBDA r : r.call = i)
    ELSE <<>>
resend(i, out) == <<>>

settle(i, res, out) ==
    /\ calls[i].state = "pending"
    /\ calls' = [calls EXCEPT ![i] =
                    [fn |-> calls[i].fn, args |-> calls[i].args, res |-> res,
                     state |-> out.state, value |-> out.value,
                     error |-> out.error]]
    /\ requests' = requests \o resend(i, out)
    /\ UNCHANGED <<VITE_API_BASE, page, dashboard, store>>

\* The request of a fetch-module call comes back (or fails).
request_settle(i, res) ==
    /\ i \in DOMAIN calls
    /\ calls[i].fn \in FetchFns
    /\ settle(i, res, request(res))

\* The request of an axios-module call comes back (or fails).
axios_settle(i, res) ==
    /\ i \in DOMAIN calls
    /\ calls[i].fn \in AxiosFns
    /\ settle(i, res, axios_then(calls[i].fn, res))

\* ---------------------------------------------------------- the Chat page
\* useState([{ role: "ai", text: "Ask about decisions, ..." }])
Greeting ==
    [role |-> "ai",
     text |-> "Ask about decisions, action items, or topics from your meeting."]

\* The frontend as loaded: no call made, the Chat page and the Dashboard as
\* first rendered (useState(null), useState(""), an empty file input).
Loaded ==
    /\ calls = <<>> /\ requests = <<>>
    /\ messages = <<Greeting>> /\ chat_q = "" /\ timers = 0 /\ sends = 0
    /\ dash_file = JsNull /\ dash_title = "''" /\ input_files = <<>>

\* What the composer may hold.
InputTexts == {"", "   ", "hi", " why? "}

\* q.trim()
trim_none(text) == text
trim(text) ==
    CASE text = "   "    -> ""
      [] text = " why? " -> "why?"
      [] OTHER           -> text

Placeholder ==
    [role |-> "ai", text |-> "This is a placeholder answer (connect /api/chat)."]

\* onChange={(e)=>setQ(e.target.value)}
setQ(text) ==
    /\ chat_q' = text
    /\ UNCHANGED <<messages, timers, sends, client, dashboard, store>>

\* setTimeout(() => ..., 300): one more timer is waiting.
setTimeout_dropped(waiting) == waiting
setTimeout_twice(waiting) == waiting + 2
setTimeout(waiting) == waiting + 1

\* setMessages(m => [...m, entry]): the next list is the current one with
\* the entry at its end.
setMessages_replace(m, entry) == <<entry>>
setMessages(m, entry) == Append(m, entry)

\* send(), from the Send button or the Enter key: nothing when q is blank;
\* otherwise the user message is appended, the reply timer is scheduled and
\* the composer is cleared.
send ==
    /\ sends < MaxSends
    /\ IF trim(chat_q) = ""
       THEN UNCHANGED <<messages, chat_q, timers, sends>>
       ELSE /\ messages' = setMessages(messages, [role |-> "user", text |-> chat_q])
            /\ timers' = setTimeout(timers)
            /\ chat_q' = ""
            /\ sends' = sends + 1
    /\ UNCHANGED <<client, dashboard, store>>

\* A reply timer fires: setMessages(m => [...m, placeholder]).  All timers
\* carry the same callback, so only their number matters.
reply ==
    /\ timers > 0
    /\ messages' = setMessages(messages, Placeholder)
    /\ timers' = timers - 1
    /\ UNCHANGED <<chat_q, sends, client, dashboard, store>>

\* -------------------------------------------------------------------- init
\* ---------------------------------------------------------- the Dashboard
\* The File objects a drop or a file dialog may carry (objects: all truthy).
DroppedFiles == {"[File standup.mp4]", "[File retro.wav]", "[File notes.txt]"}

\* A FileList: up to MaxDropped files, possibly none.
FileLists ==
    UNION {[1..n -> DroppedFiles] : n \in 0..MaxDropped}

\* files?.[0]: undefined when there is no list or the list is empty.
first(fileList) ==
    IF fileList = Null THEN Undefined
    ELSE IF Len(The(fileList)) = 0 THEN Undefined
    ELSE The(fileList)[1]

\* if (f) setFile(f): the next value of the file state.
setFile_always(current, f) == f
setFile(current, f) == IF Truthy(f) THEN f ELSE current

\* onDrop: e.dataTransfer.files?.[0] is selected when there is one.
onDrop(fileList) ==
    /\ dash_file' = setFile(dash_file, first(fileList))
    /\ UNCHANGED <<dash_title, input_files, client, page, store>>

\* onBrowse: the change event of the hidden input, whose FileList is the new
\* one; e.target.files?.[0] is selected when there is one.
onBrowse(fileList) ==
    /\ input_files' = fileList
    /\ dash_file' = setFile(dash_file, first(Some(fileList)))
    /\ UNCHANGED <<dash_title, client, page, store>>

\* onChange={(e)=>setTitle(e.target.value)}
setTitle(text) ==
    /\ dash_title' = text
    /\ UNCHANGED <<dash_file, input_files, client, page, store>>

\* disabled={!file}
disabled == ~Truthy(dash_file)

Empty ==
    /\ meetings = {} /\ files = {} /\ utterances = {} /\ chunks = {}
    /\ summaries = {} /\ asr_jobs = {}
    /\ chunks_id_seq = 0 /\ utterances_id_seq = 0 /\ files_id_seq = 0
    /\ last = Outcome("none", "none")

OptionOf(S) == {Null} \cup {Some(v) : v \in S}

\* --------------------------------------- the retrieval path (setup schema)
InitSearch == schema = "setup" /\ Empty /\ VITE_API_BASE = Null /\ Loaded

NextSearch ==
    \/ \E m \in MeetingIds : create_meeting(m, FALSE, Null)
    \/ \E m \in MeetingIds : delete_meeting(m)
    \/ \E mid \in OptionOf(MeetingIds), e \in OptionOf(OfferedVectors) :
          create_chunk(mid, ChunkContent("hello"), Null, e)
    \/ \E id \in 1..MaxChunks, e \in OptionOf(OfferedVectors) :
          update_embedding(id, e)
    \/ \E q \in QueryVectors, m \in MeetingIds, k \in -1..MaxK :
          match_chunks(q, m, k)

SpecSearch == InitSearch /\ [][NextSearch]_vars

\* ------------------------------------------------- claims on match_chunks
\* The call recorded in `last` is a match_chunks call that returned.
Matched == last.op = "match_chunks" /\ last.err = "none"

\* A match_chunks call with a query vector of the declared dimension and a
\* row count that LIMIT accepts.
WellFormedMatch ==
    last.op = "match_chunks" /\ last.q.dim = VectorDim /\ last.k >= 0

\* The chunks of the queried meeting that carry an embedding.
Embedded == {c \in chunks : c.meeting_id = last.m /\ c.embedding # Null}

RowDistance(r) == CosineDistance(The(r.embedding), last.q)

\* C1: for every K >= 0 and a meeting M with N chunks that have an embedding,
\* match_chunks(q, M, K) returns exactly min(K, N) rows, each with
\* meeting_id = M.
C1_RowCount ==
    WellFormedMatch =>
        /\ last.err = "none"
        /\ Len(last.rows) = Min(last.k, Cardinality(Embedded))
        /\ \A i \in DOMAIN last.rows : last.rows[i].meeting_id = last.m

\* C1 witness: a call capped by K (K = 1 < N = 2) while another meeting holds
\* an embedded chunk.
C1_Witness ==
    /\ WellFormedMatch
    /\ last.k = 1 /\ Cardinality(Embedded) = 2
    /\ Len(last.rows) = 1
    /\ \E c \in chunks : c.meeting_id # last.m /\ c.embedding # Null

\* C2: the returned rows are in non-decreasing order of cosine distance to q,
\* and no chunk of M with an embedding that was left out is strictly closer to
\* q than a returned row.
C2_Sorted ==
    Matched =>
        /\ \A i, j \in DOMAIN last.rows :
              i < j => DistLeq(RowDistance(last.rows[i]), RowDistance(last.rows[j]))
        /\ \A c \in Embedded :
              (\A i \in DOMAIN last.rows : last.rows[i].id # c.id) =>
                 \A i \in DOMAIN last.rows :
                    ~DistLess(CosineDistance(The(c.embedding), last.q),
                              RowDistance(last.rows[i]))

\* C2 witness: the spec's example.  Chunks A and B at different distances and
\* C without an embedding, K above their number: the result is [A, B].
C2_Witness ==
    /\ Matched
    /\ last.k = 3
    /\ Cardinality({c \in chunks : c.meeting_id = last.m}) = 3
    /\ \E c \in chunks : c.meeting_id = last.m /\ c.embedding = Null
    /\ Len(last.rows) = 2
    /\ DistLess(RowDistance(last.rows[1]), RowDistance(last.rows[2]))
    /\ last.rows[1].id > last.rows[2].id

\* C3: a chunk whose embedding is null is never among the returned rows.
C3_NoNullEmbedding ==
    Matched =>
        \A i \in DOMAIN last.rows :
            /\ last.rows[i].embedding # Null
            /\ \A c \in chunks :
                  c.id = last.rows[i].id => c.embedding # Null

\* C3 witness: rows were returned for a meeting that also holds a chunk
\* without an embedding.
C3_Witness ==
    /\ Matched
    /\ Len(last.rows) >= 1
    /\ \E c \in chunks : c.meeting_id = last.m /\ c.embedding = Null

\* C4: match_chunks for a meeting with zero chunks, or none with an embedding,
\* returns an empty result and raises no error.
C4_EmptyNotError ==
    (WellFormedMatch /\ Embedded = {}) =>
        (last.err = "none" /\ last.rows = <<>>)

\* C4 witness: an empty result for an existing meeting without embedded
\* chunks, asked for K > 0 rows, while another meeting holds embedded chunks.
C4_Witness ==
    /\ WellFormedMatch /\ last.k > 0
    /\ HasMeeting(The(last.m))
    /\ Embedded = {}
    /\ \E c \in chunks : c.meeting_id = last.m
    /\ \E c \in chunks : c.meeting_id # last.m /\ c.embedding # Null
    /\ last.err = "none" /\ last.rows = <<>>

\* The stored chunk a returned row was made from.
RowChunk(r) == CHOOSE c \in chunks : c.id = r.id

\* C12 (as claimed): each row returned by match_chunks carries every field of
\* the stored chunk row unchanged, its source tag (transcript or summary)
\* among them, plus one computed similarity field equal to 1 minus the cosine
\* distance to the query vector.
C12_FullRow ==
    Matched =>
        \A i \in DOMAIN last.rows :
            /\ HasChunk(last.rows[i].id)
            /\ \A col \in DOMAIN RowChunk(last.rows[i]) :
                  /\ col \in DOMAIN last.rows[i]
                  /\ last.rows[i][col] = RowChunk(last.rows[i])[col]
            /\ DOMAIN last.rows[i] =
                  DOMAIN RowChunk(last.rows[i]) \cup {"similarity"}
            /\ last.rows[i].similarity = OneMinus(RowDistance(last.rows[i]))
            /\ "source" \in DOMAIN last.rows[i]
            /\ last.rows[i].source \in ChunkSources

\* C9 (as claimed): a match_chunks call, a chunk insert or an embedding update
\* whose vector length differs from the declared dimension fails with a
\* dimension-mismatch error and leaves the chunks table unchanged.
C9_DimensionMismatchFails ==
    [][/\ ((last'.op = "match_chunks")
            /\ (last'.k > 0)
            /\ (last'.q.dim # VectorDim))
          => (last'.err = "dimension_mismatch")
       /\ ((last'.op \in {"create_chunk", "update_embedding"})
            /\ (last'.op = "update_embedding" => last'.given)
            /\ (last'.val # Null)
            /\ (The(last'.val).dim # VectorDim))
          => (last'.err = "dimension_mismatch" /\ chunks' = chunks)]_vars

\* ------------------------------------- the meeting lifecycle (both schemas)
InitStatus == schema \in Schemas /\ Empty /\ VITE_API_BASE = Null /\ Loaded

NextStatus ==
    \/ \E m \in MeetingIds : create_meeting(m, FALSE, Null)
    \/ \E m \in MeetingIds, st \in OptionOf(StatusTexts) : create_meeting(m, TRUE, st)
    \/ \E m \in MeetingIds, st \in OptionOf(StatusTexts) : update_status(m, st)
    \/ \E m \in MeetingIds : delete_meeting(m)

SpecStatus == InitStatus /\ [][NextStatus]_vars

SixValues == {Some(st) : st \in MeetingStatuses}

\* C5 (as claimed): after any accepted inserts and status updates, every
\* meeting row's status is one of uploaded, asr_started, asr_done, indexed,
\* summarized, error, in both schemas.
C5_StatusEnumerated ==
    \A mt \in meetings : mt.status \in SixValues

\* The pipeline order of section 4.3: one step along the chain, or to error.
ChainNext(st) ==
    CASE st = "uploaded"    -> {"asr_started", "error"}
      [] st = "asr_started" -> {"asr_done", "error"}
      [] st = "asr_done"    -> {"indexed", "error"}
      [] st = "indexed"     -> {"summarized", "error"}
      [] OTHER              -> {"error"}

\* C7 (as claimed): a meeting's status changes only one step along the chain
\* uploaded -> asr_started -> asr_done -> indexed -> summarized, or to error.
\* Stated for the schema that carries meetings_status_check.
C7_ChainOrder ==
    [][schema = "setup" =>
          \A mt \in meetings : \A nx \in meetings' :
              (mt.id = nx.id /\ mt.status # nx.status) =>
                  The(nx.status) \in ChainNext(The(mt.status))]_vars

\* C7 (amended): a status update of an existing meeting is accepted or
\* rejected on the new value alone: under meetings_status_check exactly the
\* six values are accepted, schemas/db.sql accepts every value, and an
\* accepted update stores the new value whatever the status was before.
C7_AnyOrder ==
    (last.op = "update_status" /\ last.given) =>
        /\ (last.err = "none") <=> (schema = "db" \/ last.val \in SixValues)
        /\ last.err = "none" => MeetingOf(The(last.m)).status = last.val
        /\ last.err # "none" => MeetingOf(The(last.m)).status = last.old

\* C7 witness: an accepted update that moves a meeting back from summarized
\* to uploaded under meetings_status_check.
C7_Witness ==
    /\ schema = "setup"
    /\ last.op = "update_status" /\ last.err = "none"
    /\ last.old = Some("summarized") /\ last.val = Some("uploaded")
    /\ MeetingOf(The(last.m)).status = Some("uploaded")

\* C15 (as claimed): a meeting created without an explicit status starts in
\* status uploaded, in both schemas.
C15_DefaultUploaded ==
    (last.op = "create_meeting" /\ ~last.given /\ last.err = "none") =>
        /\ HasMeeting(The(last.m))
        /\ MeetingOf(The(last.m)).status = Some("uploaded")

\* ------------------------------------------ ownership (both schemas)
InitStore == schema \in Schemas /\ Empty /\ VITE_API_BASE = Null /\ Loaded

NextStore ==
    \/ \E m \in MeetingIds : create_meeting(m, FALSE, Null)
    \/ \E m \in MeetingIds : delete_meeting(m)
    \/ \E mid \in OptionOf(MeetingIds) : create_utterance(mid, 0, MaxTime)
    \/ \E mid \in OptionOf(MeetingIds) :
          chunks_id_seq < MaxRows
             /\ create_chunk(mid, ChunkContent("hello"), Null, Null)
    \/ \E mid \in OptionOf(MeetingIds) : create_summary(mid, Some(1))
    \/ \E mid \in OptionOf(MeetingIds) : create_file(mid, Some("upload"))
    \/ \E id \in 1..MaxRows, mid \in OptionOf(MeetingIds) :
          create_asr_job(id, mid, FALSE, Null)

SpecStore == InitStore /\ [][NextStore]_vars

\* C6: right after a meeting M is deleted, no utterance, chunk, summary, file
\* or asr_job references M.
C6_CascadeDelete ==
    (last.op = "delete_meeting" /\ last.err = "none") =>
        /\ \A r \in utterances : r.meeting_id # last.m
        /\ \A r \in chunks : r.meeting_id # last.m
        /\ \A r \in summaries : r.meeting_id # last.m
        /\ \A r \in files : r.meeting_id # last.m
        /\ \A r \in asr_jobs : r.meeting_id # last.m

\* C6 witness: the delete of a meeting that owned a row in each of the five
\* tables.
C6_Witness ==
    /\ last.op = "delete_meeting" /\ last.given
    /\ last.k = 5
    /\ ~HasMeeting(The(last.m))

\* The rows of the five dependent tables, by the meeting_id they carry.
DependentRefs ==
    {r.meeting_id : r \in utterances} \cup {r.meeting_id : r \in chunks}
        \cup {r.meeting_id : r \in summaries} \cup {r.meeting_id : r \in files}
        \cup {r.meeting_id : r \in asr_jobs}

DependentInserts ==
    {"create_utterance", "create_chunk", "create_summary", "create_file",
     "create_asr_job"}

\* C11 (as claimed): in every reachable store state every utterance, chunk,
\* summary, file and asr_job row references a meeting that currently exists,
\* and an insert of a dependent row with a missing or non-existent meeting_id
\* is rejected, in both schemas.
C11_ReferencesExist ==
    /\ \A ref \in DependentRefs : ref # Null /\ HasMeeting(The(ref))
    /\ (last.op \in DependentInserts /\ last.err = "none") =>
          (last.m # Null /\ HasMeeting(The(last.m)))

\* ------------------------------------------- utterances (both schemas)
InitUtterance == schema \in Schemas /\ Empty /\ VITE_API_BASE = Null /\ Loaded

NextUtterance ==
    \/ \E m \in MeetingIds : create_meeting(m, FALSE, Null)
    \/ \E m \in MeetingIds : delete_meeting(m)
    \/ \E mid \in OptionOf(MeetingIds), st \in 0..MaxTime, en \in 0..MaxTime :
          create_utterance(mid, st, en)

SpecUtterance == InitUtterance /\ [][NextUtterance]_vars

\* C13 (as claimed): every stored utterance satisfies
\* start_seconds <= end_seconds, because an insert of an utterance with
\* start_seconds > end_seconds is not accepted.
C13_StartBeforeEnd ==
    \A u \in utterances : u.start_seconds <= u.end_seconds

\* ------------------------------------- enumerated columns (both schemas)
\* Texts a writer may offer for meetings.status, asr_jobs.status and
\* files.kind: each column accepts some of them and rejects the others.
EnumTexts == {"uploaded", "queued", "upload", "processing", "error"}

InitEnum == schema \in Schemas /\ Empty /\ VITE_API_BASE = Null /\ Loaded

NextEnum ==
    \/ \E m \in MeetingIds, st \in OptionOf(EnumTexts) : create_meeting(m, TRUE, st)
    \/ \E m \in MeetingIds, st \in OptionOf(EnumTexts) : update_status(m, st)
    \/ \E m \in MeetingIds : delete_meeting(m)
    \/ \E m \in MeetingIds, kind \in OptionOf(EnumTexts) :
          create_file(Some(m), kind)
    \/ \E id \in 1..MaxRows, kind \in OptionOf(EnumTexts) : update_kind(id, kind)
    \/ \E id \in 1..MaxRows, m \in MeetingIds, st \in OptionOf(EnumTexts) :
          create_asr_job(id, Some(m), TRUE, st)
    \/ \E id \in 1..MaxRows, st \in OptionOf(EnumTexts) :
          update_job_status(id, st)

SpecEnum == InitEnum /\ [][NextEnum]_vars

\* The enumerated set of the column a statement writes.
EnumOf(op) ==
    CASE op \in {"create_meeting", "update_status"}    -> MeetingStatuses
      [] op \in {"create_file", "update_kind"}          -> FileKinds
      [] op \in {"create_asr_job", "update_job_status"} -> AsrJobStatuses
      [] OTHER                                          -> {}

EnumInserts == {"create_meeting", "create_file", "create_asr_job"}
EnumUpdates == {"update_status", "update_kind", "update_job_status"}

\* The statement recorded in `last` sets an enumerated column of a row (for an
\* update: of an existing row) to a text outside the column's set.
SetsOutside ==
    /\ last.op \in EnumInserts \cup EnumUpdates
    /\ last.op \in EnumUpdates => last.given
    /\ last.val # Null
    /\ The(last.val) \notin EnumOf(last.op)

\* C14: under the schema that declares meetings_status_check,
\* files_kind_check and asr_jobs_status_check, an insert or update that sets
\* meetings.status, asr_jobs.status or files.kind to a value outside its
\* enumerated set is rejected with a check violation and leaves every table
\* unchanged.
C14_EnumRejected ==
    [][((schema = "setup") /\ SetsOutside')
          => ((last'.err = "check_violation") /\ (tables' = tables))]_vars

\* C14 witness: "processing" is refused as the kind of an existing file while
\* an asr_job holds it as its status; the file keeps its kind.
C14_Witness ==
    /\ schema = "setup"
    /\ last.op = "update_kind" /\ last.given
    /\ last.val = Some("processing") /\ last.err = "check_violation"
    /\ \E f \in files : f.id = The(last.id) /\ f.kind = last.old
    /\ \E j \in asr_jobs : j.status = Some("processing")

\* ------------------------------------------- summaries (both schemas)
InitSummary == schema \in Schemas /\ Empty /\ VITE_API_BASE = Null /\ Loaded

NextSummary ==
    \/ \E m \in MeetingIds : create_meeting(m, FALSE, Null)
    \/ \E m \in MeetingIds : delete_meeting(m)
    \/ \E mid \in OptionOf(MeetingIds), pl \in OptionOf(1..MaxPayload) :
          create_summary(mid, pl)
    \/ \E m \in MeetingIds, pl \in OptionOf(1..MaxPayload) : upsert_summary(m, pl)
    \/ \E m \in MeetingIds : delete_summary(m)

SpecSummary == InitSummary /\ [][NextSummary]_vars

Files == {"'meeting.mp4'"}
Titles == {"''", "'Standup'"}
MeetingIdArgs == {"'m1'", "'m 2'"}
Queries == {"'What was decided?'"}
Speakers == {Undefined, "'Speaker A'"}
TimeEnds == {Undefined, "'45'"}

ApiBases == {Null, Some(<<"http://backend">>)}

InitClient ==
    schema = "setup" /\ Empty /\ VITE_API_BASE \in ApiBases /\ Loaded

\* The calls of the fetch module.
FetchCalls ==
    \/ \E f \in Files, t \in Titles : start("ingestFile", <<f, t>>, ingestFile(f, t))
    \/ \E id \in MeetingIdArgs : start("buildIndex", <<id>>, buildIndex(id))
    \/ \E id \in MeetingIdArgs : start("getSummary", <<id>>, getSummary(id))
    \/ \E id \in MeetingIdArgs, qu \in Queries : start("chat", <<id, qu>>, chat(id, qu))

\* The calls of the axios module.
AxiosCalls ==
    \/ \E f \in Files, t \in Titles : start("api.ingest", <<f, t>>, ingest(f, t))
    \/ \E id \in MeetingIdArgs : start("api.buildIndex", <<id>>, api_buildIndex(id))
    \/ \E id \in MeetingIdArgs : start("api.summarize", <<id>>, summarize(id))
    \/ \E id \in MeetingIdArgs : start("api.getSummary", <<id>>, api_getSummary(id))
    \/ \E id \in MeetingIdArgs : start("api.getUtterances", <<id>>, getUtterances(id))
    \/ \E id \in MeetingIdArgs, qu \in Queries, sp \in Speakers, te \in TimeEnds :
          start("api.askChat", <<id, qu, Undefined, sp, te, Undefined>>,
                askChat(id, qu, Undefined, sp, te, Undefined))

NextFetch ==
    \/ FetchCalls
    \/ \E i \in 1..MaxCalls, res \in Responses : request_settle(i, res)

SpecFetch == InitClient /\ [][NextFetch]_vars

NextApi ==
    \/ FetchCalls
    \/ AxiosCalls
    \/ \E i \in 1..MaxCalls, res \in Responses : request_settle(i, res)
    \/ \E i \in 1..MaxCalls, res \in Responses : axios_settle(i, res)

SpecApi == InitClient /\ [][NextApi]_vars

\* The function whose call issued request r.
FnOf(r) == calls[r.call].fn

ChatKeys == {"meeting_id", "query", "k", "filters", "rerank"}
FilterKeys == {"speaker", "time_start", "time_end"}

\* C16 (as claimed): every chat request the client sends, from askChat and
\* from chat alike, is a POST whose JSON body has all of meeting_id, query, k,
\* filters {speaker, time_start, time_end} and rerank.
C16_ChatBodyComplete ==
    \A n \in DOMAIN requests :
        FnOf(requests[n]) \in {"chat", "api.askChat"} =>
            /\ requests[n].req.method = "POST"
            /\ requests[n].req.body.type = "json"
            /\ ChatKeys \subseteq DOMAIN requests[n].req.body.json
            /\ DOMAIN requests[n].req.body.json.filters = FilterKeys

\* The functions that ask the backend for a meeting's summary computation.
SummarizeFns == {"getSummary", "api.summarize"}

\* The path of a URL: what follows the origin.
Path(url) == Tail(url)

\* C17 (as claimed): the client requests a summary computation with
\* GET /api/summarize carrying meeting_id as a query parameter, from both
\* client API modules alike.
C17_SummarizeIsGet ==
    \A n \in DOMAIN requests :
        FnOf(requests[n]) \in SummarizeFns =>
            /\ requests[n].req.method = "GET"
            /\ VITE_API_BASE = Null =>
                  Path(requests[n].req.url) = <<"api", "summarize">>
            /\ \E p \in requests[n].req.query : p[1] = "meeting_id"

\* The calls made through request() whose request got a response.
Answered ==
    {i \in DOMAIN calls :
        /\ calls[i].fn \in FetchFns
        /\ calls[i].state # "pending"
        /\ calls[i].res.kind = "response"}

OkStatuses == 200..299

\* C18: for every call made through request(), a response with a non-OK
\* status surfaces as an error carrying the status code and the status text,
\* never as a value; a response with an OK status never surfaces as an error:
\* the call yields the parsed JSON body, or {} when the body is not valid JSON.
C18_RequestSurfaces ==
    \A i \in Answered :
        IF calls[i].res.status \in OkStatuses
        THEN /\ calls[i].state = "fulfilled"
             /\ calls[i].error = NoError
             /\ calls[i].value =
                   IF calls[i].res.body \in ValidJson
                   THEN JsonParse(calls[i].res.body) ELSE "{}"
        ELSE /\ calls[i].state = "rejected"
             /\ calls[i].value = Undefined
             /\ calls[i].error.name = "Error"
             /\ calls[i].error.message =
                   <<ToString(calls[i].res.status), calls[i].res.statusText>>

\* C18 witness: one call rejected with "404 Not Found" although the body was
\* valid JSON, another fulfilled with {} on a 200 whose body was not JSON.
C18_Witness ==
    \E i, j \in Answered :
        /\ calls[i].res = Response(404, ItemsJson)
        /\ calls[i].state = "rejected"
        /\ calls[i].error.message = <<"404", "Not Found">>
        /\ calls[j].res = Response(200, "<html>")
        /\ calls[j].state = "fulfilled" /\ calls[j].value = "{}"

\* The requests call i has issued so far.
RequestsOf(i) == {n \in DOMAIN requests : requests[n].call = i}

\* C19: each client API call, of the fetch module and of the axios module,
\* issues exactly one HTTP request, whether it is still pending, succeeded or
\* failed; a failure is never followed by another send.
C19_OneRequestPerCall ==
    /\ \A i \in DOMAIN calls : Cardinality(RequestsOf(i)) = 1
    /\ Len(requests) = Len(calls)

\* C19 witness: a fetch-module call failed on a 500 and an axios-module call
\* failed without a response, and each has its one request.
C19_Witness ==
    \E i, j \in DOMAIN calls :
        /\ calls[i].fn \in FetchFns /\ calls[i].state = "rejected"
        /\ calls[i].res.status = 500
        /\ calls[j].fn \in AxiosFns /\ calls[j].state = "rejected"
        /\ calls[j].res = NetworkError
        /\ Cardinality(RequestsOf(i)) = 1 /\ Cardinality(RequestsOf(j)) = 1

\* ---------------------------------------------------------- the Chat page
InitChat == schema = "setup" /\ Empty /\ VITE_API_BASE = Null /\ Loaded

NextChat ==
    \/ \E text \in InputTexts : setQ(text)
    \/ send
    \/ reply

\* A timer that is due fires: the event loop runs its callback.
SpecChat == InitChat /\ [][NextChat]_vars /\ WF_vars(reply)

\* The number of messages of a role.
Count(role) == Cardinality({n \in DOMAIN messages : messages[n].role = role})

\* Once no timer is pending, N sends have left 1 + 2N messages, N of the user
\* and N + 1 of the ai; and ai replies never outnumber the user messages.
ChatBalanced ==
    /\ Count("user") = sends
    /\ Count("ai") - 1 <= Count("user")
    /\ timers = 0 =>
          /\ Len(messages) = 1 + 2 * sends
          /\ Count("ai") = sends + 1

\* C20: in the Chat page, for any interleaving of non-blank sends and timer
\* firings, every send eventually gets exactly one placeholder reply: once
\* all pending timers have fired the list has length 1 + 2N with N user and
\* N + 1 ai entries, and at no point do ai replies (beyond the greeting)
\* outnumber the user messages sent so far.
C20_EverySendAnswered ==
    /\ []ChatBalanced
    /\ \A n \in 1..MaxSends : (sends >= n) ~> (Count("ai") >= n + 1)
    /\ \A n \in 1..MaxSends : (sends = n) ~> (sends > n \/ timers = 0)

\* C20 witness: two sends made before the first timer fired, then both
\* timers: user, user, ai, ai after the greeting.
C20_Witness ==
    /\ sends = 2 /\ timers = 0
    /\ Len(messages) = 5
    /\ messages[2].role = "user" /\ messages[3].role = "user"
    /\ messages[4] = Placeholder /\ messages[5] = Placeholder
    /\ messages[2].text # messages[3].text

\* The position of the i-th message of a role.
Pos(role, i) ==
    CHOOSE n \in DOMAIN messages :
        /\ messages[n].role = role
        /\ Cardinality({k \in 1..n : messages[k].role = role}) = i

\* C21: in the Chat page, the i-th placeholder reply (the ai entry number
\* i + 1, the greeting being the first) stands after the i-th user message,
\* every reply is the placeholder, and the user messages stand in the order
\* of their sends; the list need not alternate (see the witness).
C21_ReplyAfterItsMessage ==
    /\ \A i \in 1..(Count("ai") - 1) :
          /\ i <= Count("user")
          /\ Pos("ai", i + 1) > Pos("user", i)
          /\ messages[Pos("ai", i + 1)] = Placeholder
    /\ \A n \in DOMAIN messages : messages[n].role \in {"user", "ai"}

\* C21 witness: two sends before the first timer fired, then one timer: the
\* first reply stands at position 4, not next to the message it answers at
\* position 2, and the second reply is still to come.
C21_Witness ==
    /\ timers = 1
    /\ Len(messages) = 4
    /\ messages[2].role = "user" /\ messages[3].role = "user"
    /\ messages[4] = Placeholder
    /\ Pos("user", 1) = 2 /\ Pos("ai", 2) = 4

\* s is an initial part of t.
IsPrefix(s, t) == Len(s) <= Len(t) /\ SubSeq(t, 1, Len(s)) = s

\* C22: in the Chat page the message list is append-only: every step leaves
\* the earlier list as a prefix of the later one (so, by transitivity, the
\* list of any earlier state is a prefix of the list of every later state),
\* and the first entry is always the initial ai greeting.
C22_AppendOnly ==
    /\ [][IsPrefix(messages, messages')]_vars
    /\ [](Len(messages) >= 1 /\ messages[1] = Greeting)

\* C22 witness: the list after every send was made and answered, the
\* greeting still first.
C22_Witness ==
    /\ Len(messages) = 1 + 2 * MaxSends
    /\ messages[1] = Greeting
    /\ timers = 0

\* Empty or only whitespace.
Blank(text) == text \in {"", "   "}

\* A step appended a user message or scheduled a timer.
Sent ==
    \/ timers' > timers
    \/ /\ Len(messages') > Len(messages)
       /\ messages'[Len(messages')].role = "user"

\* C23: in the Chat page, a send while the input is empty or only whitespace
\* changes nothing (no user message, no timer, the input kept); a send with
\* non-blank input appends the input verbatim as one user message, schedules
\* one timer and clears the input; and nothing but such a send appends a
\* user message or schedules a timer.
C23_SendFrame ==
    [][/\ send =>
            IF Blank(chat_q)
            THEN UNCHANGED <<messages, timers, chat_q>>
            ELSE /\ messages' = Append(messages, [role |-> "user", text |-> chat_q])
                 /\ timers' = timers + 1
                 /\ chat_q' = ""
       /\ Sent =>
            /\ ~Blank(chat_q)
            /\ messages' = Append(messages, [role |-> "user", text |-> chat_q])
            /\ timers' = timers + 1
            /\ chat_q' = ""]_vars

\* C23 witness: an input with surrounding spaces was sent untrimmed and the
\* composer is empty again.
C23_Witness ==
    /\ chat_q = ""
    /\ Len(messages) >= 2
    /\ messages[Len(messages)] = [role |-> "user", text |-> " why? "]

\* ---------------------------------------------------------- the Dashboard
DashTitles == {"''", "'Standup'", "'Q3 review'"}

InitDashboard == schema = "setup" /\ Empty /\ VITE_API_BASE = Null /\ Loaded

NextDashboard ==
    \/ \E fileList \in OptionOf(FileLists) : onDrop(fileList)
    \/ \E fileList \in FileLists : onBrowse(fileList)
    \/ \E text \in DashTitles : setTitle(text)

SpecDashboard == InitDashboard /\ [][NextDashboard]_vars

\* A file is selected.
Selected == dash_file \in DroppedFiles

\* The event's list carries no file.
NoFile(fileList) == fileList = Null \/ The(fileList) = <<>>

\* C24: in the Dashboard upload form the Upload & Process button is disabled
\* exactly when no file is selected; a drop or browse event without a file
\* leaves the selection unchanged, so a selection never returns to empty
\* (and the button never becomes disabled again), while an event with a
\* file replaces the selection by the first file it carries.
C24_SelectionKept ==
    /\ [](disabled <=> ~Selected)
    /\ [](~Selected <=> dash_file = JsNull)
    /\ [][/\ Selected => Selected' /\ ~disabled'
          /\ \A fileList \in OptionOf(FileLists) :
                (onDrop(fileList) \/ (fileList # Null /\ onBrowse(The(fileList)))) =>
                    dash_file' = IF NoFile(fileList) THEN dash_file
                                 ELSE The(fileList)[1]
          /\ input_files' # input_files =>
                dash_file' = IF input_files' = <<>> THEN dash_file
                             ELSE input_files'[1]]_vars

\* C24 witness: a file was chosen in the dialog, another one was dropped and
\* replaced it, and the dialog was then cancelled: the hidden input is empty
\* again while the dropped file is still selected and the button enabled.
C24_Witness ==
    /\ input_files = <<>>
    /\ dash_file = "[File retro.wav]"
    /\ ~disabled
    /\ dash_title = "'Standup'"

\* ------------------------------------------------------------ askChat alone
\* What a caller may pass: each option omitted, falsy or truthy.
SpeakerArgs == {Undefined, JsNull, "''", "'Speaker A'"}
TimeEndArgs == {Undefined, JsNull, "0", "''", "30", "'45'"}
KRerankArgs == {<<Undefined, Undefined>>, <<"5", "false">>}

NextAsk ==
    \E sp \in SpeakerArgs, te \in TimeEndArgs, kr \in KRerankArgs :
        start("api.askChat", <<"'m1'", "'What was decided?'", kr[1], sp, te, kr[2]>>,
              askChat("'m1'", "'What was decided?'", kr[1], sp, te, kr[2]))

SpecAsk == InitClient /\ [][NextAsk]_vars

\* The JSON body of the one request call i issued.
BodyOf(i) == requests[CHOOSE n \in DOMAIN requests : requests[n].call = i].req.body.json

\* C25: askChat always sends time_start = null; a falsy speaker (omitted,
\* null or "") is sent as null and any other as given; time_end is sent as
\* Number(time_end) when it is truthy and as null otherwise, so 0 and "" are
\* sent as null; k and rerank are 12 and true when omitted.
C25_AskChatFilters ==
    \A i \in DOMAIN calls :
        calls[i].fn = "api.askChat" =>
            LET k == calls[i].args[3]
                speaker == calls[i].args[4]
                time_end == calls[i].args[5]
                rerank == calls[i].args[6]
                body == BodyOf(i)
            IN  /\ body.filters.time_start = JsNull
                /\ body.filters.speaker =
                      IF speaker \in {Undefined, JsNull, "''"} THEN JsNull ELSE speaker
                /\ time_end \in {Undefined, JsNull, "0", "''"} =>
                      body.filters.time_end = JsNull
                /\ time_end = "30" => body.filters.time_end = "30"
                /\ time_end = "'45'" => body.filters.time_end = "45"
                /\ k = Undefined => body.k = "12"
                /\ rerank = Undefined => body.rerank = "true"
                /\ k # Undefined => body.k = k
                /\ rerank # Undefined => body.rerank = rerank

\* C25 witness: one call with time_end 0 and speaker "" and nothing else,
\* sent without an upper time bound, and one with time_end '45', sent as 45.
C25_Witness ==
    \E i, j \in DOMAIN calls :
        /\ calls[i].fn = "api.askChat" /\ calls[j].fn = "api.askChat"
        /\ calls[i].args[5] = "0" /\ calls[i].args[4] = "''"
        /\ calls[i].args[3] = Undefined /\ calls[i].args[6] = Undefined
        /\ BodyOf(i).filters.time_end = JsNull
        /\ BodyOf(i).filters.speaker = JsNull
        /\ BodyOf(i).k = "12" /\ BodyOf(i).rerank = "true"
        /\ calls[j].args[5] = "'45'"
        /\ BodyOf(j).filters.time_end = "45"

\* ------------------------------------------------ match_chunks in isolation
\* The chunks of the queried meeting, embedded or not: the part of the store
\* on which two states are asked to agree.
OwnChunks == {c \in chunks : c.meeting_id = last.m}

\* The results the last call may give on the chunks table C.
LastResults(C) == match_results(C, last.q, The(last.m), last.k)

\* C26: the result of match_chunks(q, M, K) depends only on the chunks of
\* meeting M: what the call may return on the whole chunks table (error or
\* rows with their similarities, over the orders of equal-distance ties) is
\* what it may return on M's chunks alone, and the call returned one of
\* these.  Two store states that agree on M's chunks therefore give the
\* same results, whatever the chunks of other meetings are.
C26_OnlyOwnChunks ==
    last.op = "match_chunks" =>
        /\ LastResults(chunks) = LastResults(OwnChunks)
        /\ [err |-> last.err, rows |-> last.rows] \in LastResults(OwnChunks)

\* C26 witness: rows were returned for M while another meeting holds an
\* embedded chunk strictly closer to q than the one row returned, though
\* more rows were asked for.
C26_Witness ==
    /\ Matched /\ last.k >= 2
    /\ Len(last.rows) = 1
    /\ \E c \in chunks \ OwnChunks :
          /\ c.embedding # Null
          /\ DistLess(match_distance(c, last.q), RowDistance(last.rows[1]))

\* --------------------------------------- deletes and searches (setup schema)
InitFrame == schema = "setup" /\ Empty /\ VITE_API_BASE = Null /\ Loaded

NextFrame ==
    \/ \E m \in MeetingIds : create_meeting(m, FALSE, Null)
    \/ \E m \in MeetingIds : delete_meeting(m)
    \/ \E mid \in MeetingIds : create_utterance(Some(mid), 0, MaxTime)
    \/ \E mid \in MeetingIds :
          chunks_id_seq < MaxRows + 1
             /\ create_chunk(Some(mid), ChunkContent("hello"), Null,
                             Some(Vec(VectorDim, 1, 0)))
    \/ \E mid \in MeetingIds : create_summary(Some(mid), Some(1))
    \/ \E mid \in MeetingIds : create_file(Some(mid), Some("upload"))
    \/ \E id \in 1..MaxRows, mid \in MeetingIds :
          create_asr_job(id, Some(mid), FALSE, Null)
    \/ \E m \in MeetingIds : match_chunks(Vec(VectorDim, 1, 0), m, MaxK)

SpecFrame == InitFrame /\ [][NextFrame]_vars

\* The rows of a dependent table that do not belong to meeting m.
OthersOf(rows, m) == {r \in rows : r.meeting_id # m}

\* C27: a step that deletes meeting M leaves every other meeting row and
\* every utterance, chunk, summary, file and asr_job of another meeting as it
\* was (none removed, changed or added), and a match_chunks step leaves all
\* six tables and their sequences unchanged.
C27_DeleteAndMatchFrame ==
    [][/\ last'.op = "delete_meeting" =>
            /\ {mt \in meetings' : Some(mt.id) # last'.m}
                  = {mt \in meetings : Some(mt.id) # last'.m}
            /\ OthersOf(utterances', last'.m) = OthersOf(utterances, last'.m)
            /\ OthersOf(chunks', last'.m) = OthersOf(chunks, last'.m)
            /\ OthersOf(summaries', last'.m) = OthersOf(summaries, last'.m)
            /\ OthersOf(files', last'.m) = OthersOf(files, last'.m)
            /\ OthersOf(asr_jobs', last'.m) = OthersOf(asr_jobs, last'.m)
       /\ last'.op = "match_chunks" => UNCHANGED <<tables, sequences>>]_vars

\* C27 witness: meeting M was deleted with rows of its own while the other
\* meeting exists and owns a row in each of the five dependent tables.
C27_Witness ==
    /\ last.op = "delete_meeting" /\ last.given /\ last.k >= 2
    /\ \E mt \in meetings : Some(mt.id) # last.m
    /\ OthersOf(utterances, last.m) # {}
    /\ OthersOf(chunks, last.m) # {}
    /\ OthersOf(summaries, last.m) # {}
    /\ OthersOf(files, last.m) # {}
    /\ OthersOf(asr_jobs, last.m) # {}
====
